---------------------------- MODULE Spec2Model ----------------------------
(***************************************************************************)
(* Model of the legislative-document analyser: the PDF text extractor      *)
(* (src/src/pdf_extractor.py), the LLM analysis client                     *)
(* (src/src/gemini_analyzer.py), the report accumulator                    *)
(* (src/src/json_compiler.py) and the orchestrator (src/main.py).          *)
(*                                                                         *)
(* Representation.  A Python str that the code splits or strips is a       *)
(* sequence of tokens; a token is one character ("a", " ", "\n") or a      *)
(* literal fragment of the source kept whole ("Purpose: ").  A str the     *)
(* code only stores or compares is a TLA+ string.  A Python dict is a      *)
(* function whose domain is its key set, a list is a sequence.             *)
(***************************************************************************)
EXTENDS Integers, Sequences, FiniteSets, TLC

VARIABLES
    pdf,             \* the input document on disk (environment)
    api_key,         \* GEMINI_API_KEY of the environment, "" when absent
    pc,              \* position of main()
    error,           \* the stage whose exception reached main's except, or ""
    exit_code,       \* process exit code, -1 while running
    report,          \* JSONCompiler.report
    files,           \* output files written in this run: name -> content
    llm_log,         \* the LLM round-trips issued so far, in order
    extracted_text,  \* main's extracted_text
    pdf_metadata,    \* main's pdf_metadata
    summary,         \* main's summary (result of summarize_act)
    sections,        \* main's sections (result of extract_legislative_sections)
    results,         \* apply_rule_checks' results list
    rule_idx,        \* apply_rule_checks' position in its for loop (1-based)
    returned,        \* value returned by the last JSONCompiler.generate_report
    given            \* what JSONCompiler's driver passed to the latest call of
                     \* each add_* method (history, kept for SpecCompiler)

vars == <<pdf, api_key, pc, error, exit_code, report, files, llm_log,
          extracted_text, pdf_metadata, summary, sections, results,
          rule_idx, returned, given>>

-----------------------------------------------------------------------------
(* Bounds of the model *)

\* Lines of a fallback reply built from LineForms (whitespace variety).
MaxRichLines == 3
\* Lines of a fallback reply whose lines are blank or labelled by position
\* (more than ten non-blank lines must be possible).
MaxLongLines == 12
\* Characters of the text of a one-page document.
MaxTextLen == 5
\* Characters of each page of a two-page document.
MaxPageLen == 2
\* Characters by which the long document exceeds the prompt limit.
LongTextExcess == 1

-----------------------------------------------------------------------------
(* Python built-ins *)

Min(a, b) == IF a <= b THEN a ELSE b

\* {} : the empty dict
EmptyDict == <<>>

\* d[k] = v
SetKey(d, k, v) == [j \in (DOMAIN d) \cup {k} |-> IF j = k THEN v ELSE d[j]]

\* d.get(k, default)
dict_get(d, k, default) == IF k \in DOMAIN d THEN d[k] ELSE default

\* the characters str.strip() removes (those of the model's alphabet)
Whitespace == {" ", "\t", "\n", "\r"}

RECURSIVE lstrip(_)
lstrip(s) ==
    IF s = <<>> THEN <<>>
    ELSE IF Head(s) \in Whitespace THEN lstrip(Tail(s)) ELSE s

RECURSIVE rstrip(_)
rstrip(s) ==
    IF s = <<>> THEN <<>>
    ELSE IF s[Len(s)] \in Whitespace THEN rstrip(SubSeq(s, 1, Len(s) - 1)) ELSE s

\* s.strip()
strip(s) == rstrip(lstrip(s))

\* s.split(sep) for a one-character sep: always at least one piece
RECURSIVE split(_, _)
split(s, sep) ==
    IF \A i \in 1..Len(s) : s[i] # sep THEN <<s>>
    ELSE LET i == CHOOSE k \in 1..Len(s) :
                      s[k] = sep /\ \A j \in 1..(k - 1) : s[j] # sep
         IN  <<SubSeq(s, 1, i - 1)>> \o split(SubSeq(s, i + 1, Len(s)), sep)

\* sep.join(parts)
RECURSIVE join(_, _)
join(parts, sep) ==
    IF parts = <<>> THEN <<>>
    ELSE IF Len(parts) = 1 THEN parts[1]
    ELSE parts[1] \o sep \o join(Tail(parts), sep)

\* seq[:n]
Take(seq, n) == SubSeq(seq, 1, Min(n, Len(seq)))

\* [line.strip() for line in lines if line.strip()]
RECURSIVE stripped_nonblank(_)
stripped_nonblank(lines) ==
    IF lines = <<>> THEN <<>>
    ELSE IF strip(Head(lines)) # <<>>
         THEN <<strip(Head(lines))>> \o stripped_nonblank(Tail(lines))
         ELSE stripped_nonblank(Tail(lines))

\* sum(1 for r in rule_checks if r.get("status") == s)
RECURSIVE count_status(_, _)
count_status(rule_checks, s) ==
    IF rule_checks = <<>> THEN 0
    ELSE (IF dict_get(Head(rule_checks), "status", "None") = s THEN 1 ELSE 0)
         + count_status(Tail(rule_checks), s)

\* the outcome of a call into a library or the LLM service
Returned(v) == [ok |-> TRUE, value |-> v]
Raised(msg) == [ok |-> FALSE, value |-> msg]

-----------------------------------------------------------------------------
(* src/src/pdf_extractor.py *)

\* a clean_text that tests line.strip() but keeps the line as it was
clean_text_unstripped(text) ==
    LET lines == split(text, "\n")
        kept == SelectSeq(lines, LAMBDA line : strip(line) # <<>>)
    IN  join(kept, <<"\n">>)

\* clean_text(text)
clean_text(text) ==
    LET lines == split(text, "\n")
        cleaned_lines == stripped_nonblank(lines)
    IN  join(cleaned_lines, <<"\n">>)

\* the pages whose extract_text() is truthy, in order
RECURSIVE text_content(_)
text_content(pages) ==
    IF pages = <<>> THEN <<>>
    ELSE IF Head(pages) # <<>>
         THEN <<Head(pages)>> \o text_content(Tail(pages))
         ELSE text_content(Tail(pages))

\* an extractor that swallows the failure and returns no text
extract_text_from_pdf_swallow(d) ==
    IF ~d.readable THEN Returned(<<>>)
    ELSE Returned(clean_text(join(text_content(d.pages), <<"\n", "\n">>)))

\* extract_text_from_pdf(pdf_path): raises when pdfplumber cannot open or
\* parse the document
extract_text_from_pdf(d) ==
    IF ~d.readable THEN Raised("pdf syntax error")
    ELSE Returned(clean_text(join(text_content(d.pages), <<"\n", "\n">>)))

\* the dict get_pdf_metadata returns when it returns
get_pdf_metadata(d) ==
    [total_pages   |-> Len(d.pages),
     author        |-> dict_get(d.metadata, "Author", "Unknown"),
     title         |-> dict_get(d.metadata, "Title", "Unknown"),
     creation_date |-> dict_get(d.metadata, "CreationDate", "Unknown")]

-----------------------------------------------------------------------------
(* src/src/json_compiler.py *)

\* JSONCompiler.__init__
JSONCompiler_init ==
    [metadata                   |-> EmptyDict,
     task1_text_extraction      |-> EmptyDict,
     task2_summary              |-> EmptyDict,
     task3_legislative_sections |-> EmptyDict,
     task4_rule_checks          |-> EmptyDict]

\* JSONCompiler.add_metadata; now is datetime.now().isoformat()
add_metadata(rep, md, now) ==
    SetKey(rep, "metadata",
           [document_name |-> "Universal Credit Act 2025",
            analysis_date |-> now,
            pdf_info      |-> md])

\* JSONCompiler.add_task1_result
add_task1_result(rep, text, pdf_path) ==
    SetKey(rep, "task1_text_extraction",
           [description |-> "Full text extracted from PDF",
            source_file |-> pdf_path,
            text_length |-> Len(text),
            status      |-> "completed",
            note        |-> "Full text stored separately for brevity"])

\* a slip in the key that add_task2_result writes
add_task2_result_other_key(rep, s) ==
    SetKey(rep, "task2_summmary",
           [description    |-> "Act summarized in 5-10 bullet points",
            summary_points |-> dict_get(s, "summary", <<>>),
            status         |-> "completed"])

\* JSONCompiler.add_task2_result
add_task2_result(rep, s) ==
    SetKey(rep, "task2_summary",
           [description    |-> "Act summarized in 5-10 bullet points",
            summary_points |-> dict_get(s, "summary", <<>>),
            status         |-> "completed"])

\* JSONCompiler.add_task3_result
add_task3_result(rep, secs) ==
    SetKey(rep, "task3_legislative_sections",
           [description |-> "Key legislative sections extracted",
            sections    |-> secs,
            status      |-> "completed"])

\* add_task4_result with the filter of the "failed" count dropped
add_task4_result_unfiltered(rep, rule_checks) ==
    SetKey(rep, "task4_rule_checks",
           [description |-> "Six rule compliance checks applied",
            total_rules |-> Len(rule_checks),
            passed      |-> count_status(rule_checks, "pass"),
            failed      |-> Len(rule_checks),
            checks      |-> rule_checks,
            status      |-> "completed"])

\* add_task4_result keeping a running "passed" count across calls
add_task4_result_accumulating(rep, rule_checks) ==
    SetKey(rep, "task4_rule_checks",
           [description |-> "Six rule compliance checks applied",
            total_rules |-> Len(rule_checks),
            passed      |-> dict_get(rep["task4_rule_checks"], "passed", 0)
                            + count_status(rule_checks, "pass"),
            failed      |-> count_status(rule_checks, "fail"),
            checks      |-> rule_checks,
            status      |-> "completed"])

\* JSONCompiler.add_task4_result
add_task4_result(rep, rule_checks) ==
    SetKey(rep, "task4_rule_checks",
           [description |-> "Six rule compliance checks applied",
            total_rules |-> Len(rule_checks),
            passed      |-> count_status(rule_checks, "pass"),
            failed      |-> count_status(rule_checks, "fail"),
            checks      |-> rule_checks,
            status      |-> "completed"])

\* JSONCompiler.generate_report
generate_report(rep) == rep

\* the content json.dump leaves in the file when the write is cut short
PartialWrite == [partial |-> TRUE]

\* JSONCompiler.save_to_file: mkdir or open may raise before the file exists,
\* json.dump may raise after open() has created it
save_to_file(fs, rep, output_path, outcome) ==
    CASE outcome = "ok"         -> SetKey(fs, output_path, rep)
      [] outcome = "write_fail" -> SetKey(fs, output_path, PartialWrite)
      [] OTHER                  -> fs

\* JSONCompiler.save_extracted_text
save_extracted_text(fs, text, output_dir, outcome) ==
    CASE outcome = "ok"         -> SetKey(fs, output_dir \o "/extracted_text.txt", text)
      [] outcome = "write_fail" -> SetKey(fs, output_dir \o "/extracted_text.txt", PartialWrite)
      [] OTHER                  -> fs

\* what open/write can do
IoOutcomes == {"ok", "open_fail", "write_fail"}

-----------------------------------------------------------------------------
(* src/src/gemini_analyzer.py *)

\* text[:20000]
PromptLimit == 20000

\* a prompt built from the whole text
prompt_text_whole(text) == text

\* text[:20000]
prompt_text(text) == Take(text, PromptLimit)

\* the rules list of apply_rule_checks
rules ==
    <<"Act must define key terms",
      "Act must specify eligibility criteria",
      "Act must specify responsibilities of the administering authority",
      "Act must include enforcement or penalties",
      "Act must include payment calculation or entitlement structure",
      "Act must include record-keeping or reporting requirements">>

\* lines[:10] of the fallback
SummaryLimit == 10

\* summarize_act, try branch: the five bullet points built from an ActSummary
summarize_act_structured(s) ==
    [summary |-> << <<"Purpose: ">> \o s.purpose,
                    <<"Key Definitions: ">> \o s.key_definitions,
                    <<"Eligibility: ">> \o s.eligibility,
                    <<"Obligations: ">> \o s.obligations,
                    <<"Enforcement: ">> \o s.enforcement >>]

\* the fallback keeping the lines it tested, not the stripped ones
summarize_act_fallback_unstripped(content) ==
    LET RECURSIVE keep(_)
        keep(ls) == IF ls = <<>> THEN <<>>
                    ELSE IF strip(Head(ls)) # <<>>
                         THEN <<Head(ls)>> \o keep(Tail(ls))
                         ELSE keep(Tail(ls))
    IN  [summary |-> Take(keep(split(content, "\n")), SummaryLimit)]

\* summarize_act, except branch, after self.llm.invoke returned response
summarize_act_fallback(content) ==
    LET lines == stripped_nonblank(split(content, "\n"))
    IN  [summary |-> Take(lines, SummaryLimit)]

\* a fallback dict whose last placeholder is misspelt
sections_fallback_misspelt ==
    [definitions      |-> "Error extracting definitions",
     obligations      |-> "Error extracting obligations",
     responsibilities |-> "Error extracting responsibilities",
     eligibility      |-> "Error extracting eligibility",
     payments         |-> "Error extracting payments",
     penalties        |-> "Error extracting penalties",
     record_keeping   |-> "Error extracting record keeping"]

\* extract_legislative_sections, except branch
sections_fallback ==
    [definitions      |-> "Error extracting definitions",
     obligations      |-> "Error extracting obligations",
     responsibilities |-> "Error extracting responsibilities",
     eligibility      |-> "Error extracting eligibility",
     payments         |-> "Error extracting payments",
     penalties        |-> "Error extracting penalties",
     record_keeping   |-> "Error extracting record_keeping"]

\* extract_legislative_sections: sections.model_dump() or the fallback
extract_legislative_sections(outcome) ==
    IF outcome.ok THEN outcome.value ELSE sections_fallback

\* apply_rule_checks, loop body: the entry appended for one rule
rule_result(rule, outcome) ==
    IF outcome.ok THEN outcome.value
    ELSE [rule       |-> rule,
          status     |-> "error",
          evidence   |-> "Analysis failed: " \o outcome.value,
          confidence |-> 0]

\* a loop that a failed rule ends (break in the except branch)
next_rule_idx_break(i, outcome) == IF outcome.ok THEN i + 1 ELSE Len(rules) + 1

\* apply_rule_checks, for rule in rules: the except branch falls through to
\* the next rule
next_rule_idx(i, outcome) == i + 1

-----------------------------------------------------------------------------
(* The LLM service: what one invoke() can produce *)

\* str(e) of a failed call
LlmError == "deadline exceeded"

\* replies of with_structured_output(ActSummary).invoke
SummaryOutcomes ==
    {Raised(LlmError),
     Returned([purpose         |-> <<"p">>,
               key_definitions |-> <<"k">>,
               eligibility     |-> <<"e">>,
               obligations     |-> <<"o">>,
               enforcement     |-> <<"f">>])}

\* replies of with_structured_output(LegislativeSections).invoke
SectionsOutcomes ==
    {Raised(LlmError),
     Returned([definitions      |-> "s.1",
               obligations      |-> "s.2",
               responsibilities |-> "s.3",
               eligibility      |-> "s.4",
               payments         |-> "s.5",
               penalties        |-> "s.6",
               record_keeping   |-> "s.7"])}

\* RuleCheck.status is a plain str: the model replies with what it likes
LlmStatuses == {"pass", "fail", "Pass"}

\* replies of with_structured_output(RuleCheck).invoke for one rule
RuleOutcomes(rule) ==
    {Raised(LlmError)} \cup
    {Returned([rule |-> rule, status |-> s, evidence |-> "Section 1",
               confidence |-> 90]) : s \in LlmStatuses}

\* one logged round-trip
LlmCall(kind, arg, text, outcome) ==
    [call |-> kind, arg |-> arg, text |-> prompt_text(text), outcome |-> outcome]

-----------------------------------------------------------------------------
(* Plain-text replies (response.content) of the fallback call *)

\* the lines a short reply is made of
LineForms ==
    {<<>>, <<" ">>, <<"a">>, <<" ", "b">>, <<"c", "\t">>, <<"a", " ", "b", "\r">>}

RichLineSeqs == UNION {[1..n -> LineForms] : n \in 1..MaxRichLines}

RichReplies == {join(ls, <<"\n">>) : ls \in RichLineSeqs}

Letters == <<"a", "b", "c", "d", "e", "f", "g", "h", "i", "j", "k", "l", "m", "n">>

Label(i) == Letters[((i - 1) % Len(Letters)) + 1]

\* MaxLongLines lines; those of blank are whitespace, the others carry their
\* position
LongReply(blank) ==
    join([i \in 1..MaxLongLines |->
             IF i \in blank THEN <<" ">> ELSE <<" ", Label(i), " ">>],
         <<"\n">>)

LongReplies == {LongReply(blank) : blank \in SUBSET (1..MaxLongLines)}

AllReplies == RichReplies \cup LongReplies

\* the replies the orchestrator's run is explored with
MainReplies ==
    {<<>>,
     <<"a", "\n", " ", "\n", " ", "b", " ">>,
     LongReply({}),
     LongReply({1, 3})}

-----------------------------------------------------------------------------
(* The environment of a run *)

PdfPath == "data/ukpga_20250022_en.pdf"
OutputDir == "output"
FinalReport == "output/final_report.json"
ExtractedTextFile == "output/extracted_text.txt"

MissingPdf ==
    [exists |-> FALSE, readable |-> FALSE, pages |-> <<>>, metadata |-> EmptyDict]

CorruptPdf ==
    [exists |-> TRUE, readable |-> FALSE, pages |-> <<>>, metadata |-> EmptyDict]

\* a document whose pages carry no text layer
ScannedPdf ==
    [exists |-> TRUE, readable |-> TRUE, pages |-> << <<>> >>, metadata |-> EmptyDict]

\* a document of three pages, the second without text
TextPdf ==
    [exists |-> TRUE, readable |-> TRUE,
     pages  |-> << <<" ", "a", " ", "\n", "\n", "b">>, <<>>, <<"c", "\t", "\n">> >>,
     metadata |-> [Author |-> "HM Government", Title |-> "Universal Credit Act 2025"]]

Pdfs == {MissingPdf, CorruptPdf, ScannedPdf, TextPdf}

ApiKeys == {"", "key"}

\* datetime.now().isoformat()
Clock == {"2025-11-01T10:00:00", "2025-11-01T10:00:01"}

-----------------------------------------------------------------------------
(* src/main.py *)

\* a main() that persists the report before the rule checks
main_sequence_early_save ==
    <<"check_pdf", "extract_text", "get_metadata", "add_task1", "save_text",
      "new_analyzer", "summarize", "add_task2", "extract_sections", "add_task3",
      "save_report", "rule_checks", "add_task4", "done">>

\* the statements of main() in program order
main_sequence ==
    <<"check_pdf", "extract_text", "get_metadata", "add_task1", "save_text",
      "new_analyzer", "summarize", "add_task2", "extract_sections", "add_task3",
      "rule_checks", "add_task4", "save_report", "done">>

\* the statement that follows stage
After(stage) ==
    LET i == CHOOSE k \in 1..Len(main_sequence) : main_sequence[k] = stage
    IN  main_sequence[i + 1]

\* except Exception as e: ... sys.exit(1)
Abort(stage) ==
    /\ error' = stage
    /\ exit_code' = 1
    /\ pc' = "exited"

\* if not pdf_path.exists(): sys.exit(1); compiler = JSONCompiler()
CheckPdf ==
    /\ pc = "check_pdf"
    /\ IF ~pdf.exists
       THEN /\ exit_code' = 1
            /\ pc' = "exited"
            /\ UNCHANGED report
       ELSE /\ pc' = After("check_pdf")
            /\ report' = JSONCompiler_init
            /\ UNCHANGED exit_code
    /\ UNCHANGED <<pdf, api_key, error, files, llm_log, extracted_text,
                   pdf_metadata, summary, sections, results, rule_idx, returned>>
    /\ UNCHANGED given

\* extracted_text = extract_text_from_pdf(str(pdf_path))
ExtractText ==
    /\ pc = "extract_text"
    /\ LET r == extract_text_from_pdf(pdf)
       IN  IF r.ok
           THEN /\ extracted_text' = r.value
                /\ pc' = After("extract_text")
                /\ UNCHANGED <<error, exit_code>>
           ELSE /\ Abort("extract_text")
                /\ UNCHANGED extracted_text
    /\ UNCHANGED <<pdf, api_key, report, files, llm_log, pdf_metadata, summary,
                   sections, results, rule_idx, returned>>
    /\ UNCHANGED given

\* pdf_metadata = get_pdf_metadata(str(pdf_path)); the function reads
\* pdf.pages after the with block has closed the document, which the
\* library may or may not allow
GetMetadata ==
    /\ pc = "get_metadata"
    /\ \E ok \in BOOLEAN :
          IF ok
          THEN /\ pdf_metadata' = get_pdf_metadata(pdf)
               /\ pc' = After("get_metadata")
               /\ UNCHANGED <<error, exit_code>>
          ELSE /\ Abort("get_metadata")
               /\ UNCHANGED pdf_metadata
    /\ UNCHANGED <<pdf, api_key, report, files, llm_log, extracted_text, summary,
                   sections, results, rule_idx, returned>>
    /\ UNCHANGED given

\* compiler.add_metadata(pdf_metadata); compiler.add_task1_result(...)
AddTask1(clock) ==
    /\ pc = "add_task1"
    /\ \E now \in clock :
          report' = add_task1_result(add_metadata(report, pdf_metadata, now),
                                     extracted_text, PdfPath)
    /\ pc' = After("add_task1")
    /\ UNCHANGED <<pdf, api_key, error, exit_code, files, llm_log, extracted_text,
                   pdf_metadata, summary, sections, results, rule_idx, returned>>
    /\ UNCHANGED given

\* compiler.save_extracted_text(extracted_text, str(output_dir))
SaveText ==
    /\ pc = "save_text"
    /\ \E o \in IoOutcomes :
          /\ files' = save_extracted_text(files, extracted_text, OutputDir, o)
          /\ IF o = "ok"
             THEN /\ pc' = After("save_text")
                  /\ UNCHANGED <<error, exit_code>>
             ELSE Abort("save_text")
    /\ UNCHANGED <<pdf, api_key, report, llm_log, extracted_text, pdf_metadata,
                   summary, sections, results, rule_idx, returned>>
    /\ UNCHANGED given

\* analyzer = GeminiAnalyzer(): raises ValueError without a key
NewAnalyzer ==
    /\ pc = "new_analyzer"
    /\ IF api_key = ""
       THEN Abort("new_analyzer")
       ELSE /\ pc' = After("new_analyzer")
            /\ UNCHANGED <<error, exit_code>>
    /\ UNCHANGED <<pdf, api_key, report, files, llm_log, extracted_text,
                   pdf_metadata, summary, sections, results, rule_idx, returned>>
    /\ UNCHANGED given

\* summarize_act: summary = structured_llm.invoke(prompt), try branch
SummarizeStructured ==
    /\ pc = "summarize"
    /\ \E o \in SummaryOutcomes :
          /\ llm_log' = Append(llm_log,
                               LlmCall("summarize_structured", "", extracted_text, o))
          /\ IF o.ok
             THEN /\ summary' = summarize_act_structured(o.value)
                  /\ pc' = After("summarize")
             ELSE /\ pc' = "summarize_fallback"
                  /\ UNCHANGED summary
    /\ UNCHANGED <<pdf, api_key, error, exit_code, report, files, extracted_text,
                   pdf_metadata, sections, results, rule_idx, returned>>
    /\ UNCHANGED given

\* summarize_act: response = self.llm.invoke(prompt), except branch; the call
\* is not inside a try of its own
SummarizeFallback(replies) ==
    /\ pc = "summarize_fallback"
    /\ \E o \in {Raised(LlmError)} \cup {Returned(r) : r \in replies} :
          /\ llm_log' = Append(llm_log,
                               LlmCall("summarize_text", "", extracted_text, o))
          /\ IF o.ok
             THEN /\ summary' = summarize_act_fallback(o.value)
                  /\ pc' = After("summarize")
                  /\ UNCHANGED <<error, exit_code>>
             ELSE /\ Abort("summarize")
                  /\ UNCHANGED summary
    /\ UNCHANGED <<pdf, api_key, report, files, extracted_text, pdf_metadata,
                   sections, results, rule_idx, returned>>
    /\ UNCHANGED given

\* compiler.add_task2_result(summary)
AddTask2 ==
    /\ pc = "add_task2"
    /\ report' = add_task2_result(report, summary)
    /\ pc' = After("add_task2")
    /\ UNCHANGED <<pdf, api_key, error, exit_code, files, llm_log, extracted_text,
                   pdf_metadata, summary, sections, results, rule_idx, returned>>
    /\ UNCHANGED given

\* sections = analyzer.extract_legislative_sections(extracted_text)
ExtractSections ==
    /\ pc = "extract_sections"
    /\ \E o \in SectionsOutcomes :
          /\ llm_log' = Append(llm_log, LlmCall("sections", "", extracted_text, o))
          /\ sections' = extract_legislative_sections(o)
    /\ pc' = After("extract_sections")
    /\ UNCHANGED <<pdf, api_key, error, exit_code, report, files, extracted_text,
                   pdf_metadata, summary, results, rule_idx, returned>>
    /\ UNCHANGED given

\* compiler.add_task3_result(sections)
AddTask3 ==
    /\ pc = "add_task3"
    /\ report' = add_task3_result(report, sections)
    /\ pc' = After("add_task3")
    /\ UNCHANGED <<pdf, api_key, error, exit_code, files, llm_log, extracted_text,
                   pdf_metadata, summary, sections, results, rule_idx, returned>>
    /\ UNCHANGED given

\* apply_rule_checks: one iteration of for rule in rules
RuleCheck ==
    /\ pc = "rule_checks"
    /\ rule_idx <= Len(rules)
    /\ \E o \in RuleOutcomes(rules[rule_idx]) :
          /\ llm_log' = Append(llm_log,
                               LlmCall("rule", rules[rule_idx], extracted_text, o))
          /\ results' = Append(results, rule_result(rules[rule_idx], o))
          /\ rule_idx' = next_rule_idx(rule_idx, o)
    /\ UNCHANGED <<pdf, api_key, pc, error, exit_code, report, files,
                   extracted_text, pdf_metadata, summary, sections, returned>>
    /\ UNCHANGED given

\* apply_rule_checks: return results
RuleChecksReturn ==
    /\ pc = "rule_checks"
    /\ rule_idx > Len(rules)
    /\ pc' = After("rule_checks")
    /\ UNCHANGED <<pdf, api_key, error, exit_code, report, files, llm_log,
                   extracted_text, pdf_metadata, summary, sections, results,
                   rule_idx, returned>>
    /\ UNCHANGED given

\* compiler.add_task4_result(rule_checks)
AddTask4 ==
    /\ pc = "add_task4"
    /\ report' = add_task4_result(report, results)
    /\ pc' = After("add_task4")
    /\ UNCHANGED <<pdf, api_key, error, exit_code, files, llm_log, extracted_text,
                   pdf_metadata, summary, sections, results, rule_idx, returned>>
    /\ UNCHANGED given

\* compiler.save_to_file(str(output_json))
SaveReport ==
    /\ pc = "save_report"
    /\ \E o \in IoOutcomes :
          /\ files' = save_to_file(files, report, FinalReport, o)
          /\ IF o = "ok"
             THEN /\ pc' = After("save_report")
                  /\ UNCHANGED <<error, exit_code>>
             ELSE Abort("save_report")
    /\ UNCHANGED <<pdf, api_key, report, llm_log, extracted_text, pdf_metadata,
                   summary, sections, results, rule_idx, returned>>
    /\ UNCHANGED given

\* main() returns: the process ends with status 0
Done ==
    /\ pc = "done"
    /\ exit_code' = 0
    /\ pc' = "exited"
    /\ UNCHANGED <<pdf, api_key, error, report, files, llm_log, extracted_text,
                   pdf_metadata, summary, sections, results, rule_idx, returned>>
    /\ UNCHANGED given

\* no add_* method has been called yet
NoCalls ==
    [metadata                   |-> Raised("not called"),
     task1_text_extraction      |-> Raised("not called"),
     task2_summary              |-> Raised("not called"),
     task3_legislative_sections |-> Raised("not called"),
     task4_rule_checks          |-> Raised("not called")]

\* the locals of a run before main() assigns them
Unassigned ==
    /\ given = NoCalls
    /\ error = ""
    /\ exit_code = -1
    /\ files = EmptyDict
    /\ llm_log = <<>>
    /\ extracted_text = <<>>
    /\ pdf_metadata = EmptyDict
    /\ summary = EmptyDict
    /\ sections = EmptyDict
    /\ results = <<>>
    /\ rule_idx = 1
    /\ returned = "none"

Init ==
    /\ pdf \in Pdfs
    /\ api_key \in ApiKeys
    /\ pc = "check_pdf"
    /\ report = JSONCompiler_init
    /\ Unassigned

Next ==
    \/ CheckPdf
    \/ ExtractText
    \/ GetMetadata
    \/ AddTask1({"2025-11-01T10:00:00"})
    \/ SaveText
    \/ NewAnalyzer
    \/ SummarizeStructured
    \/ SummarizeFallback(MainReplies)
    \/ AddTask2
    \/ ExtractSections
    \/ AddTask3
    \/ RuleCheck
    \/ RuleChecksReturn
    \/ AddTask4
    \/ SaveReport
    \/ Done

Spec == Init /\ [][Next]_vars

-----------------------------------------------------------------------------
(* JSONCompiler driven through its public methods in any order *)

MetadataArgs == {get_pdf_metadata(TextPdf)}

TextArgs == {<<>>, extract_text_from_pdf(TextPdf).value}

\* results of summarize_act on either path, and a dict without "summary"
SummaryArgs ==
    {summarize_act_structured(o.value) : o \in {x \in SummaryOutcomes : x.ok}}
    \cup {summarize_act_fallback(<<"a", "\n", " ", "b">>), [note |-> <<>>]}

\* results of extract_legislative_sections on either path
SectionsArgs == {extract_legislative_sections(o) : o \in SectionsOutcomes}

\* rule-check lists: empty, all six failed, a mixture
RuleCheckArgs ==
    {<<>>,
     [i \in 1..Len(rules) |-> rule_result(rules[i], Raised(LlmError))],
     <<[rule |-> rules[1], status |-> "pass", evidence |-> "Section 1", confidence |-> 90],
       [rule |-> rules[2], status |-> "fail", evidence |-> "Section 1", confidence |-> 90],
       [rule |-> rules[3], status |-> "Pass", evidence |-> "Section 1", confidence |-> 90],
       rule_result(rules[4], Raised(LlmError))>>}

CallAddMetadata ==
    /\ pc = "compiler_api"
    /\ \E md \in MetadataArgs, now \in Clock :
          /\ report' = add_metadata(report, md, now)
          /\ given' = [given EXCEPT !["metadata"] =
                           Returned([pdf_metadata |-> md, now |-> now])]
    /\ UNCHANGED <<pdf, api_key, pc, error, exit_code, files, llm_log,
                   extracted_text, pdf_metadata, summary, sections, results,
                   rule_idx, returned>>

CallAddTask1 ==
    /\ pc = "compiler_api"
    /\ \E t \in TextArgs :
          /\ report' = add_task1_result(report, t, PdfPath)
          /\ given' = [given EXCEPT !["task1_text_extraction"] =
                           Returned([extracted_text |-> t, pdf_path |-> PdfPath])]
    /\ UNCHANGED <<pdf, api_key, pc, error, exit_code, files, llm_log,
                   extracted_text, pdf_metadata, summary, sections, results,
                   rule_idx, returned>>

CallAddTask2 ==
    /\ pc = "compiler_api"
    /\ \E s \in SummaryArgs :
          /\ report' = add_task2_result(report, s)
          /\ given' = [given EXCEPT !["task2_summary"] = Returned(s)]
    /\ UNCHANGED <<pdf, api_key, pc, error, exit_code, files, llm_log,
                   extracted_text, pdf_metadata, summary, sections, results,
                   rule_idx, returned>>

CallAddTask3 ==
    /\ pc = "compiler_api"
    /\ \E s \in SectionsArgs :
          /\ report' = add_task3_result(report, s)
          /\ given' = [given EXCEPT !["task3_legislative_sections"] = Returned(s)]
    /\ UNCHANGED <<pdf, api_key, pc, error, exit_code, files, llm_log,
                   extracted_text, pdf_metadata, summary, sections, results,
                   rule_idx, returned>>

CallAddTask4 ==
    /\ pc = "compiler_api"
    /\ \E rc \in RuleCheckArgs :
          /\ report' = add_task4_result(report, rc)
          /\ given' = [given EXCEPT !["task4_rule_checks"] = Returned(rc)]
    /\ UNCHANGED <<pdf, api_key, pc, error, exit_code, files, llm_log,
                   extracted_text, pdf_metadata, summary, sections, results,
                   rule_idx, returned>>

\* generate_report returns self.report itself, not a copy: the caller holds
\* a reference to the live dict
CallGenerateReport ==
    /\ pc = "compiler_api"
    /\ returned' = "self.report"
    /\ UNCHANGED <<pdf, api_key, pc, error, exit_code, report, files, llm_log,
                   extracted_text, pdf_metadata, summary, sections, results,
                   rule_idx>>
    /\ UNCHANGED given

CallSaveToFile ==
    /\ pc = "compiler_api"
    /\ \E o \in IoOutcomes : files' = save_to_file(files, report, FinalReport, o)
    /\ UNCHANGED <<pdf, api_key, pc, error, exit_code, report, llm_log,
                   extracted_text, pdf_metadata, summary, sections, results,
                   rule_idx, returned>>
    /\ UNCHANGED given

InitCompiler ==
    /\ pdf = TextPdf
    /\ api_key = "key"
    /\ pc = "compiler_api"
    /\ report = JSONCompiler_init
    /\ Unassigned

NextCompiler ==
    \/ CallAddMetadata
    \/ CallAddTask1
    \/ CallAddTask2
    \/ CallAddTask3
    \/ CallAddTask4
    \/ CallGenerateReport
    \/ CallSaveToFile

SpecCompiler == InitCompiler /\ [][NextCompiler]_vars

-----------------------------------------------------------------------------
(* summarize_act called on an extracted text, over every modelled reply *)

InitSummarize ==
    /\ pdf = TextPdf
    /\ api_key = "key"
    /\ pc = "summarize"
    /\ report = JSONCompiler_init
    /\ error = ""
    /\ exit_code = -1
    /\ files = EmptyDict
    /\ llm_log = <<>>
    /\ extracted_text = extract_text_from_pdf(TextPdf).value
    /\ pdf_metadata = EmptyDict
    /\ summary = EmptyDict
    /\ sections = EmptyDict
    /\ results = <<>>
    /\ rule_idx = 1
    /\ returned = "none"
    /\ given = NoCalls

NextSummarize ==
    \/ SummarizeStructured
    \/ SummarizeFallback(AllReplies)

SpecSummarize == InitSummarize /\ [][NextSummarize]_vars

-----------------------------------------------------------------------------
(* extract_text_from_pdf called on every small document *)

\* the characters of a page: two letters, a blank and the line break
TextAlphabet == {"a", "b", " ", "\n"}

\* page.extract_text() results of at most n characters ("" and None alike
\* are the empty text)
PageTexts(n) == UNION {[1..k -> TextAlphabet] : k \in 0..n}

ReadablePdf(pages) ==
    [exists |-> TRUE, readable |-> TRUE, pages |-> pages, metadata |-> EmptyDict]

ExtractPdfs ==
    {ReadablePdf(<<t>>) : t \in PageTexts(MaxTextLen)}
    \cup {ReadablePdf(<<t, u>>) : t, u \in PageTexts(MaxPageLen)}

InitExtract ==
    /\ pdf \in ExtractPdfs
    /\ api_key = "key"
    /\ pc = "extract_text"
    /\ report = JSONCompiler_init
    /\ Unassigned

NextExtract == ExtractText

SpecExtract == InitExtract /\ [][NextExtract]_vars

-----------------------------------------------------------------------------
(* A run of main() on a document longer than the prompt limit *)

\* one line of more than PromptLimit characters; the first and the last
\* differ from the rest
LongPage ==
    [i \in 1..(PromptLimit + LongTextExcess) |->
        IF i = 1 THEN "c" ELSE IF i > PromptLimit THEN "b" ELSE "a"]

LongPdf == ReadablePdf(<<LongPage>>)

\* main() at analyzer.summarize_act (line 58): the text is extracted and
\* saved, metadata and task 1 are in the report, the analyzer is built
InitCalls ==
    /\ pdf \in {TextPdf, LongPdf}
    /\ api_key = "key"
    /\ pc = "summarize"
    /\ extracted_text = extract_text_from_pdf(pdf).value
    /\ pdf_metadata = get_pdf_metadata(pdf)
    /\ report = add_task1_result(
                    add_metadata(JSONCompiler_init, pdf_metadata,
                                 "2025-11-01T10:00:00"),
                    extracted_text, PdfPath)
    /\ files = save_extracted_text(EmptyDict, extracted_text, OutputDir, "ok")
    /\ given = NoCalls
    /\ error = ""
    /\ exit_code = -1
    /\ llm_log = <<>>
    /\ summary = EmptyDict
    /\ sections = EmptyDict
    /\ results = <<>>
    /\ rule_idx = 1
    /\ returned = "none"

\* the runs are explored with one plain-text reply and with rule replies that
\* either fail or pass: neither the number of calls nor the prompts depend
\* on what a reply says
NextCalls ==
    \/ SummarizeStructured
    \/ SummarizeFallback({<<"a", "\n", " ", "b">>})
    \/ AddTask2
    \/ ExtractSections
    \/ AddTask3
    \/ (RuleCheck /\ results'[Len(results')].status \in {"pass", "error"})
    \/ RuleChecksReturn
    \/ AddTask4
    \/ SaveReport
    \/ Done

SpecCalls == InitCalls /\ [][NextCalls]_vars

-----------------------------------------------------------------------------
(* Properties *)

TopLevelKeys ==
    {"metadata", "task1_text_extraction", "task2_summary",
     "task3_legislative_sections", "task4_rule_checks"}

TaskKeys == TopLevelKeys \ {"metadata"}

Task2 == report["task2_summary"]
Task3 == report["task3_legislative_sections"]
Task4 == report["task4_rule_checks"]

\* a report was written to FinalReport in full
ReportSaved ==
    /\ FinalReport \in DOMAIN files
    /\ files[FinalReport] # PartialWrite

\* C1: whatever JSONCompiler methods are called, in whatever order and with
\* whatever stage results (degraded ones included), the report, the dict
\* generate_report hands out and every report saved in full have exactly the
\* five top-level keys.
C1_ReportKeysFixed ==
    /\ DOMAIN report = TopLevelKeys
    /\ (returned = "self.report" => DOMAIN generate_report(report) = TopLevelKeys)
    /\ (ReportSaved => DOMAIN files[FinalReport] = TopLevelKeys)

\* C1 witness: every section has been contributed, task3 with the degraded
\* placeholders and task4 with failed rules, and the report was handed out
\* and saved.
C1_Witness ==
    /\ \A k \in TopLevelKeys : DOMAIN report[k] # {}
    /\ dict_get(Task3, "sections", EmptyDict) = sections_fallback
    /\ dict_get(Task4, "total_rules", 0) = 6
    /\ dict_get(Task4, "passed", -1) = 0
    /\ returned = "self.report"
    /\ ReportSaved
    /\ files[FinalReport] = report

\* the stages of main() that C2 lists
ListedStages ==
    {"extract_text", "get_metadata", "save_text", "new_analyzer", "summarize",
     "extract_sections", "rule_checks"}

\* C2: when one of the listed stages fails uncaught, the run has ended with
\* exit code 1 and final_report.json was not written; and whenever
\* final_report.json has been written, all four tasks had contributed to the
\* report.
C2_AbortWritesNoReport ==
    /\ (error \in ListedStages =>
            /\ pc = "exited"
            /\ exit_code = 1
            /\ FinalReport \notin DOMAIN files)
    /\ (FinalReport \in DOMAIN files =>
            \A k \in TaskKeys : dict_get(report[k], "status", "") = "completed")

\* C2 witness: summarize_act failed uncaught after task 1 had been added to
\* the report and the raw text saved; the run ended with exit code 1.
C2_Witness ==
    /\ error = "summarize"
    /\ pc = "exited"
    /\ exit_code = 1
    /\ dict_get(report["task1_text_extraction"], "status", "") = "completed"
    /\ ExtractedTextFile \in DOMAIN files

\* C3: with a missing or unreadable document no LLM call is issued, no output
\* file is written, the run never gets past text extraction, and when it has
\* ended its exit code is 1.
C3_BadDocumentAbortsEarly ==
    (~pdf.exists \/ ~pdf.readable) =>
        /\ llm_log = <<>>
        /\ files = EmptyDict
        /\ pc \in {"check_pdf", "extract_text", "exited"}
        /\ (pc = "exited" => exit_code = 1)

\* C3 witness: a document that exists but cannot be parsed, with a credential
\* present; the run has ended in the except branch of main.
C3_Witness ==
    /\ pdf.exists
    /\ ~pdf.readable
    /\ api_key # ""
    /\ pc = "exited"
    /\ error = "extract_text"

\* C4: once add_task4_result has taken the list apply_rule_checks returned,
\* total_rules is 6 and passed + failed is at most total_rules.
C4_RuleTotals ==
    DOMAIN Task4 # {} =>
        /\ Task4.total_rules = 6
        /\ Task4.passed + Task4.failed <= Task4.total_rules

\* C4 witness: a report whose six checks mix a pass, a fail, a failed call
\* and a status string outside pass/fail.
C4_Witness ==
    /\ DOMAIN Task4 # {}
    /\ Task4.passed >= 1
    /\ Task4.failed >= 1
    /\ \E i \in 1..Len(Task4.checks) : Task4.checks[i].status = "error"
    /\ \E i \in 1..Len(Task4.checks) : Task4.checks[i].status = "Pass"
    /\ Task4.passed + Task4.failed < Task4.total_rules

\* C5: every entry of apply_rule_checks' results has status pass, fail or
\* error, so passed + failed falls short of total_rules only when some entry
\* has status error.
C5_StatusClosed ==
    /\ \A i \in 1..Len(results) : results[i].status \in {"pass", "fail", "error"}
    /\ (DOMAIN Task4 # {} /\ Task4.passed + Task4.failed < Task4.total_rules
           => \E i \in 1..Len(Task4.checks) : Task4.checks[i].status = "error")

\* C6: no failure of an LLM call inside summarize_act,
\* extract_legislative_sections or apply_rule_checks reaches the caller.
C6_NoPropagation ==
    error \notin {"summarize", "extract_sections", "rule_checks"}

\* the round-trips apply_rule_checks has issued, in order
RuleCalls == SelectSeq(llm_log, LAMBDA e : e.call = "rule")

\* apply_rule_checks has returned its list
RuleChecksReturned ==
    pc \in {"add_task4", "save_report", "done"} \/ DOMAIN Task4 # {}

\* C7: apply_rule_checks issues one round-trip per rule in the rules' order
\* and appends one result per round-trip; it returns six results; the result
\* of a failed call is the error entry carrying the rule's own text, status
\* error, confidence 0 and the failure in its evidence, and the result of a
\* successful call is the reply itself, whatever the other calls did.
C7_RuleChecksIsolated ==
    /\ Len(RuleCalls) = Len(results)
    /\ Len(results) <= 6
    /\ (RuleChecksReturned => Len(results) = 6)
    /\ \A i \in 1..Len(results) :
          /\ RuleCalls[i].arg = rules[i]
          /\ IF RuleCalls[i].outcome.ok
             THEN results[i] = RuleCalls[i].outcome.value
             ELSE results[i] =
                      [rule       |-> rules[i],
                       status     |-> "error",
                       evidence   |-> "Analysis failed: " \o RuleCalls[i].outcome.value,
                       confidence |-> 0]

\* C7 witness: apply_rule_checks has returned; the calls for rules 1 and 3
\* failed, those for rules 2, 4, 5 and 6 succeeded.
C7_Witness ==
    /\ pc = "add_task4"
    /\ Len(results) = 6
    /\ \A i \in {1, 3} : ~RuleCalls[i].outcome.ok /\ results[i].status = "error"
    /\ \A i \in {2, 4, 5, 6} : RuleCalls[i].outcome.ok /\ results[i].status = "pass"

\* the position before each line of content: 0 and the positions of "\n"
LineBreaks(content) == {0} \cup {i \in 1..Len(content) : content[i] = "\n"}

\* the end of the line that starts after break b
LineEnd(content, b) ==
    LET later == {i \in LineBreaks(content) : i > b}
    IN  IF later = {} THEN Len(content)
        ELSE (CHOOSE i \in later : \A j \in later : i <= j) - 1

\* the positions within the line after break b that hold a visible character
Visible(content, b) ==
    {i \in (b + 1)..LineEnd(content, b) : content[i] \notin Whitespace}

\* the breaks that start a non-blank line
NonBlankLines(content) ==
    {b \in LineBreaks(content) : Visible(content, b) # {}}

\* the line after break b from its first to its last visible character
Trimmed(content, b) ==
    LET v == Visible(content, b)
    IN  SubSeq(content,
               CHOOSE i \in v : \A j \in v : i <= j,
               CHOOSE i \in v : \A j \in v : i >= j)

\* summarize_act returned through its fallback, which got a reply
FallbackReturned ==
    /\ pc = "add_task2"
    /\ Len(llm_log) = 2
    /\ llm_log[2].call = "summarize_text"
    /\ llm_log[2].outcome.ok

\* C8: when the structured call failed and the plain-text call returned a
\* reply, the summary has at most 10 elements, each non-empty and without
\* leading or trailing whitespace, and the k-th element is the k-th non-blank
\* line of the reply, trimmed, for the first 10 non-blank lines (all of them
\* when there are fewer).
C8_FallbackSummary ==
    FallbackReturned =>
        LET content == llm_log[2].outcome.value
            pts == summary.summary
            nb == NonBlankLines(content)
        IN  /\ Len(pts) <= 10
            /\ Len(pts) = Min(10, Cardinality(nb))
            /\ \A k \in 1..Len(pts) :
                  /\ pts[k] # <<>>
                  /\ pts[k][1] \notin Whitespace
                  /\ pts[k][Len(pts[k])] \notin Whitespace
            /\ \A b \in nb :
                  LET k == Cardinality({x \in nb : x <= b})
                  IN  k <= 10 => pts[k] = Trimmed(content, b)

\* C8 witness: the reply had eleven non-blank lines, each with whitespace on
\* both sides, and one blank line; the summary holds ten of them.
C8_Witness ==
    /\ FallbackReturned
    /\ Cardinality(NonBlankLines(llm_log[2].outcome.value)) = 11
    /\ Cardinality(LineBreaks(llm_log[2].outcome.value)) = 12
    /\ llm_log[2].outcome.value[1] \in Whitespace
    /\ Len(summary.summary) = 10

\* C9: the report of a completed run holds between 5 and 10 summary points.
C9_FiveToTenPoints ==
    (pc = "exited" /\ exit_code = 0) =>
        /\ Len(Task2.summary_points) >= 5
        /\ Len(Task2.summary_points) <= 10

SectionKeys ==
    {"definitions", "obligations", "responsibilities", "eligibility", "payments",
     "penalties", "record_keeping"}

\* the schema-constrained call of extract_legislative_sections failed
SectionsCallFailed ==
    \E i \in 1..Len(llm_log) :
        llm_log[i].call = "sections" /\ ~llm_log[i].outcome.ok

\* C10: when the schema-constrained call of extract_legislative_sections
\* failed, the result has exactly the seven keys and every field is
\* "Error extracting <field>" for its own name; the same dict is what
\* add_task3_result puts in the report.
C10_SectionsAllOrNothing ==
    SectionsCallFailed =>
        /\ DOMAIN sections = SectionKeys
        /\ \A k \in SectionKeys : sections[k] = "Error extracting " \o k
        /\ (DOMAIN Task3 # {} => Task3.sections = sections)

\* C10 witness: the sections call failed after a structured summary had
\* succeeded, and the placeholders have reached the report.
C10_Witness ==
    /\ SectionsCallFailed
    /\ llm_log[1].outcome.ok
    /\ DOMAIN Task3 # {}
    /\ Task3.sections["penalties"] = "Error extracting penalties"

\* the kinds of LLM call in the order the stages issue them
CallRank(kind) ==
    CASE kind = "summarize_structured" -> 1
      [] kind = "summarize_text"       -> 2
      [] kind = "sections"             -> 3
      [] OTHER                         -> 4

\* the stages of main() that come after the document has been read
AfterDocumentRead ==
    {"get_metadata", "add_task1", "save_text", "new_analyzer", "summarize",
     "summarize_fallback", "add_task2", "extract_sections", "add_task3",
     "rule_checks", "add_task4", "save_report", "done"}

\* C11: the stages run in the order exists-check, extraction, summarize,
\* sections, rule checks, persistence: LLM calls are issued only once the
\* document has been checked and read, in the order summarize, sections,
\* rules, and no output file (final_report.json or extracted_text.txt)
\* exists before apply_rule_checks has returned.
C11_PersistAfterRuleChecks ==
    /\ (llm_log # <<>> => pdf.exists /\ pdf.readable)
    /\ \A i, j \in 1..Len(llm_log) :
          i < j => CallRank(llm_log[i].call) <= CallRank(llm_log[j].call)
    /\ (DOMAIN files # {} => Len(results) = Len(rules) /\ rule_idx > Len(rules))

\* C12: without a credential the run gets no further than the start: the
\* document is not read, no text is extracted and no output file is
\* written.
C12_CredentialCheckedFirst ==
    api_key = "" =>
        /\ pc \notin AfterDocumentRead
        /\ extracted_text = <<>>
        /\ DOMAIN files = {}

\* the number of entries of a rule-check list whose status is exactly st
WithStatus(list, st) ==
    Cardinality({i \in 1..Len(list) : dict_get(list[i], "status", "None") = st})

\* C13: after any sequence of add_* calls every section of the report is
\* empty when its add_* was never called and otherwise is exactly the
\* contribution of the latest call for that stage, whatever was called
\* before or after for the other stages; task4's total_rules, passed and
\* failed are those of the latest rule-check list.
C13_LastWriteWins ==
    /\ \A k \in TopLevelKeys : ~given[k].ok => report[k] = EmptyDict
    /\ given["metadata"].ok =>
          report["metadata"] =
              [document_name |-> "Universal Credit Act 2025",
               analysis_date |-> given["metadata"].value.now,
               pdf_info      |-> given["metadata"].value.pdf_metadata]
    /\ given["task1_text_extraction"].ok =>
          report["task1_text_extraction"] =
              [description |-> "Full text extracted from PDF",
               source_file |-> given["task1_text_extraction"].value.pdf_path,
               text_length |-> Len(given["task1_text_extraction"].value.extracted_text),
               status      |-> "completed",
               note        |-> "Full text stored separately for brevity"]
    /\ given["task2_summary"].ok =>
          LET s == given["task2_summary"].value
          IN  Task2 =
                  [description    |-> "Act summarized in 5-10 bullet points",
                   summary_points |-> IF "summary" \in DOMAIN s THEN s.summary ELSE <<>>,
                   status         |-> "completed"]
    /\ given["task3_legislative_sections"].ok =>
          Task3 =
              [description |-> "Key legislative sections extracted",
               sections    |-> given["task3_legislative_sections"].value,
               status      |-> "completed"]
    /\ given["task4_rule_checks"].ok =>
          LET rc == given["task4_rule_checks"].value
          IN  Task4 =
                  [description |-> "Six rule compliance checks applied",
                   total_rules |-> Len(rc),
                   passed      |-> WithStatus(rc, "pass"),
                   failed      |-> WithStatus(rc, "fail"),
                   checks      |-> rc,
                   status      |-> "completed"]

\* C13 witness: every add_* has been called; a report saved earlier holds a
\* task4 section of six checks and a five-point summary, and both have since
\* been overwritten, by a list of four checks (one pass, one fail) and by a
\* summary without points.
C13_Witness ==
    /\ \A k \in TopLevelKeys : given[k].ok
    /\ ReportSaved
    /\ dict_get(files[FinalReport]["task4_rule_checks"], "total_rules", 0) = 6
    /\ Len(dict_get(files[FinalReport]["task2_summary"], "summary_points", <<>>)) = 5
    /\ Task4.total_rules = 4
    /\ Task4.passed = 1
    /\ Task4.failed = 1
    /\ Task2.summary_points = <<>>

\* the text clean_text is given: the pages with text joined by a blank line
RawText == join(text_content(pdf.pages), <<"\n", "\n">>)

\* the k-th line of content (k from 1)
LineAt(content, k) ==
    LET b == CHOOSE x \in LineBreaks(content) :
                 Cardinality({y \in LineBreaks(content) : y <= x}) = k
    IN  SubSeq(content, b + 1, LineEnd(content, b))

\* C14: the text extract_text_from_pdf returns is clean_text of the joined
\* pages: it is empty exactly when the input has no non-blank line;
\* otherwise it has one line per non-blank input line, in order, each the
\* input line from its first to its last visible character, so no line is
\* empty or has leading or trailing whitespace and lines are separated by
\* single newlines; and clean_text leaves it unchanged.  (The lines of a
\* text are its pieces between "\n"; the empty text has no line.)
C14_CleanText ==
    pc = "get_metadata" =>
        LET raw == RawText
            out == extracted_text
            nb == NonBlankLines(raw)
        IN  /\ (out = <<>>) <=> (nb = {})
            /\ out # <<>> =>
                  /\ Cardinality(LineBreaks(out)) = Cardinality(nb)
                  /\ \A b \in LineBreaks(out) :
                        /\ LineEnd(out, b) > b
                        /\ out[b + 1] \notin Whitespace
                        /\ out[LineEnd(out, b)] \notin Whitespace
                  /\ \A b \in nb :
                        LineAt(out, Cardinality({x \in nb : x <= b})) = Trimmed(raw, b)
            /\ clean_text(out) = out

\* C14 witness: a two-page document whose joined text starts with
\* whitespace and has blank lines between two non-blank ones; the text
\* returned has two lines and differs from the input.
C14_Witness ==
    /\ pc = "get_metadata"
    /\ Len(pdf.pages) = 2
    /\ RawText # <<>>
    /\ RawText[1] \in Whitespace
    /\ Cardinality(NonBlankLines(RawText)) = 2
    /\ Cardinality(LineBreaks(RawText)) >= 4
    /\ Cardinality(LineBreaks(extracted_text)) = 2
    /\ extracted_text # RawText

\* the number of logged calls of one kind
CallCount(kind) ==
    Cardinality({i \in 1..Len(llm_log) : llm_log[i].call = kind})

\* C15: no call is tried twice.  summarize_act issues one schema-constrained
\* call and then at most one plain-text call, which follows a failed
\* schema-constrained call only; extract_legislative_sections issues one
\* call; apply_rule_checks issues one call per rule, in the rules' order; a
\* completed run has issued 8 or 9 calls; and every call carries the first
\* 20000 characters of the extracted text (all of it when it is shorter).
C15_NoRetries ==
    /\ CallCount("summarize_structured") <= 1
    /\ CallCount("summarize_text") <= 1
    /\ CallCount("sections") <= 1
    /\ CallCount("summarize_text") = 1 =>
          /\ llm_log[1].call = "summarize_structured"
          /\ ~llm_log[1].outcome.ok
          /\ llm_log[2].call = "summarize_text"
    /\ Len(RuleCalls) <= 6
    /\ \A i \in 1..Len(RuleCalls) : RuleCalls[i].arg = rules[i]
    /\ \A i, j \in 1..Len(llm_log) :
          i < j => CallRank(llm_log[i].call) <= CallRank(llm_log[j].call)
    /\ (pc = "exited" /\ exit_code = 0) =>
          /\ CallCount("summarize_structured") = 1
          /\ CallCount("sections") = 1
          /\ Len(RuleCalls) = 6
          /\ Len(llm_log) \in {8, 9}
          /\ (Len(llm_log) = 9 <=> ~llm_log[1].outcome.ok)
    /\ \A i \in 1..Len(llm_log) :
          /\ Len(llm_log[i].text) <= 20000
          /\ llm_log[i].text =
                SubSeq(extracted_text, 1,
                       IF Len(extracted_text) < 20000
                       THEN Len(extracted_text) ELSE 20000)

\* C15 witness: on a text of more than 20000 characters the
\* schema-constrained summary call failed and the plain-text call followed
\* it, each on the first 20000 characters.
C15_Witness ==
    /\ Len(extracted_text) > 20000
    /\ Len(llm_log) = 2
    /\ llm_log[1].call = "summarize_structured"
    /\ ~llm_log[1].outcome.ok
    /\ llm_log[2].call = "summarize_text"
    /\ Len(llm_log[1].text) = 20000
    /\ Len(llm_log[2].text) = 20000
    /\ llm_log[2].text[1] = "c"
    /\ llm_log[2].text[20000] = "a"

=============================================================================
